---- MODULE Spec2Model ----
(***************************************************************************)
(* A model of the feature/label construction and walk-forward evaluation   *)
(* core of Beautiful-Model:                                                *)
(*   - feature_binning             (machine_learning/model_features.py)    *)
(*   - DataHandler                 (machine_learning/utils.py)             *)
(*   - FeaturesCreator             (machine_learning/features_creator.py)  *)
(*   - calculate_returns           (utils/utils.py)                        *)
(*   - Statistics, model_reports   (utils/utils.py)                        *)
(*                                                                         *)
(* Conventions.  A pandas Series / DataFrame is a TLA+ sequence of rows;   *)
(* the row at Python position p (0-based) is element p+1.  The index of a  *)
(* frame is strictly increasing in time, so the label of a row is          *)
(* identified with its position.  Feature values are integers; interval    *)
(* bounds are integers counted in thousandths                              *)
(* (pd.qcut labels its intervals with precision 3).  The two sentinels of  *)
(* feature_binning (-999999999999 and 999999999999) do not fit a machine   *)
(* integer of the checker and are the symbolic numbers NegSentinel and     *)
(* PosSentinel; Below and Above stand for any number under the negative    *)
(* sentinel and over the positive one (for instance -inf and +inf).        *)
(***************************************************************************)
EXTENDS Integers, Sequences, FiniteSets, TLC

VARIABLES binning,     \* one call sequence of feature_binning
          evaluator,   \* DataHandler.model_pipeline / get_datasets / FeaturesCreator
          targets,     \* DataHandler.calculate_targets
          returns,     \* one call of calculate_returns
          search,      \* one call of FeaturesCreator.calculate_model_returns
          parallel,    \* the fit/evaluate cycles of one search, run as threads
          stats,       \* one Statistics instance
          candles,     \* one call of temp_indicator("wick_proportion")
          reports      \* one call of model_reports / DataHandler.result_metrics

vars == <<binning, evaluator, targets, returns, search, parallel, stats, candles,
          reports>>

(***************************************************************************)
(* Bounds of the model.                                                    *)
(***************************************************************************)
MaxLen == 4
MaxVal == 3
MaxBins == 3

(***************************************************************************)
(* Numbers.                                                                *)
(***************************************************************************)
\* A number is <<kind, v>>: <<"num", v>> is the integer v.
Num(v) == <<"num", v>>
NaN == <<"NaN", 0>>
NegSentinel == <<"-999999999999", 0>>
PosSentinel == <<"999999999999", 0>>
Below == <<"below -999999999999", 0>>
Above == <<"above 999999999999", 0>>

\* pd.qcut(..., precision=3): interval labels are rounded to thousandths.
Scale == 1000

Rank(x) ==
    CASE x[1] = Below[1] -> 0 - 2
      [] x[1] = NegSentinel[1] -> 0 - 1
      [] x[1] = PosSentinel[1] -> 1
      [] x[1] = Above[1] -> 2
      [] OTHER -> 0

\* a <= b on non-NaN numbers
Leq(a, b) ==
    IF Rank(a) # Rank(b) THEN Rank(a) < Rank(b)
    ELSE IF Rank(a) = 0 THEN a[2] <= b[2]
    ELSE TRUE

\* a feature value in thousandths (the unit of the interval bounds)
Thousandths(x) == IF x[1] = "num" THEN Num(x[2] * Scale) ELSE x

Range(s) == {s[i] : i \in DOMAIN s}

SeqsUpTo(S, n) == UNION {[1..m -> S] : m \in 0..n}

\* Series.dropna()
RECURSIVE DropNa(_)
DropNa(s) ==
    IF s = <<>> THEN <<>>
    ELSE IF Head(s) = NaN THEN DropNa(Tail(s))
    ELSE <<Head(s)>> \o DropNa(Tail(s))

\* the stable ascending sort of a sequence of integers
SortAsc(s) ==
    LET pos(i) == Cardinality({j \in DOMAIN s : s[j] < s[i]})
                  + Cardinality({j \in DOMAIN s : j < i /\ s[j] = s[i]}) + 1
    IN  [p \in DOMAIN s |-> s[CHOOSE i \in DOMAIN s : pos(i) = p]]

\* np.around(x, 3) of the rational num/den >= 0, in thousandths (half to even)
RoundThousandths(num, den) ==
    LET q == (Scale * num) \div den
        r == (Scale * num) % den
    IN  IF 2 * r < den THEN q
        ELSE IF 2 * r > den THEN q + 1
        ELSE IF q % 2 = 0 THEN q ELSE q + 1

(***************************************************************************)
(* feature_binning (machine_learning/model_features.py).                   *)
(***************************************************************************)

\* test_index: [kind |-> "int", at |-> k] is the ordinal k; [kind |-> "str",
\* at |-> p] is the label of the row at position p.

\* train_series: feature.iloc[:test_index] for an ordinal (positions before
\* it), feature.loc[:test_index] for a label (label slicing keeps its end)
TrainSeries(feature, test_index) ==
    IF test_index.kind = "int"
    THEN SubSeq(feature, 1, IF test_index.at < Len(feature)
                            THEN test_index.at ELSE Len(feature))
    ELSE SubSeq(feature, 1, test_index.at + 1)

\* whether the row at position p of the feature is in train_series
InTrainSeries(feature, test_index, p) ==
    p < Len(TrainSeries(feature, test_index))

\* np.quantile(x, j / q) by linear interpolation, times q (an exact integer)
QuantileTimes(sorted, j, q) ==
    LET h == (Len(sorted) - 1) * j
        lo == h \div q
        rem == h % q
    IN  IF rem = 0 THEN q * sorted[lo + 1]
        ELSE q * sorted[lo + 1] + rem * (sorted[lo + 2] - sorted[lo + 1])

\* algos.unique of a non-decreasing sequence
RECURSIVE Unique(_)
Unique(s) ==
    IF Len(s) <= 1 THEN s
    ELSE IF s[1] = s[2] THEN Unique(Tail(s))
    ELSE <<s[1]>> \o Unique(Tail(s))

\* the bin edges of pd.qcut(x, q, duplicates='drop'), times q: the q+1
\* quantiles, duplicates dropped unless there are only two edges
QcutEdges(x, q) ==
    LET sorted == SortAsc(x)
        all == [j \in 1..(q + 1) |-> QuantileTimes(sorted, j - 1, q)]
    IN  IF Len(Unique(all)) < Len(all) /\ Len(all) # 2 THEN Unique(all) ELSE all

\* the interval (1-based) pd.qcut puts v in: searchsorted(side='left'), the
\* lowest edge included
QcutCode(v, edges, q) ==
    IF q * v = edges[1] THEN 1
    ELSE Cardinality({e \in DOMAIN edges : edges[e] < q * v})

\* the categories of pd.qcut: interval i is (left, right], the breaks rounded
\* to three decimals and the first one lowered by 0.001
QcutIntervals(edges, q) ==
    [i \in 1..(Len(edges) - 1) |->
        [left |-> RoundThousandths(edges[i], q) - (IF i = 1 THEN 1 ELSE 0),
         right |-> RoundThousandths(edges[i + 1], q)]]

\* .value_counts(): every category with the number of observations in it,
\* most frequent first, equal counts in category order
ValueCountsOrder(count) ==
    LET pos(i) == Cardinality({j \in DOMAIN count : count[j] > count[i]})
                  + Cardinality({j \in DOMAIN count : j < i /\ count[j] = count[i]})
                  + 1
    IN  [p \in DOMAIN count |-> CHOOSE i \in DOMAIN count : pos(i) = p]

\* intervals: pd.qcut(train_series, bins, duplicates='drop').value_counts()
\* .index.to_list(); <<>> when the window has no two distinct edges
Intervals(train_series, bins) ==
    LET kept == DropNa(train_series)
        x == [t \in DOMAIN kept |-> kept[t][2]]
    IN  IF x = <<>> THEN <<>>
        ELSE LET edges == QcutEdges(x, bins)
                 cats == QcutIntervals(edges, bins)
                 count == [i \in DOMAIN cats |->
                             Cardinality({t \in DOMAIN x :
                                            QcutCode(x[t], edges, bins) = i})]
                 order == ValueCountsOrder(count)
             IN  [p \in DOMAIN cats |-> cats[order[p]]]

\* (mutant) the lower sentinel is not written
WithSentinels_NoLowest(intervals) ==
    [i \in DOMAIN intervals |->
        [lowest |-> Num(intervals[i].left),
         highest |-> IF i = Len(intervals) THEN PosSentinel
                     ELSE Num(intervals[i].right)]]

\* lows.iloc[0] = -999999999999 and highs.iloc[-1] = 999999999999
WithSentinels(intervals) ==
    [i \in DOMAIN intervals |->
        [lowest |-> IF i = 1 THEN NegSentinel ELSE Num(intervals[i].left),
         highest |-> IF i = Len(intervals) THEN PosSentinel
                     ELSE Num(intervals[i].right)]]

\* .sort_values("highest").reset_index(drop=True)
SortByHighest(t) ==
    LET before(j, i) == /\ Leq(t[j].highest, t[i].highest)
                        /\ (Leq(t[i].highest, t[j].highest) => j < i)
        pos(i) == Cardinality({j \in DOMAIN t : before(j, i)}) + 1
    IN  [p \in DOMAIN t |-> t[CHOOSE i \in DOMAIN t : pos(i) = p]]

\* intervals_range
IntervalsRange(intervals) == SortByHighest(WithSentinels(intervals))

\* intervals_range[(x >= lowest) & (x <= highest)].index: the 0-based row
\* numbers of the rows holding x, in table order
Matching(x, intervals_range) ==
    LET m == {i \in DOMAIN intervals_range :
                /\ Leq(intervals_range[i].lowest, Thousandths(x))
                /\ Leq(Thousandths(x), intervals_range[i].highest)}
    IN  [p \in 1..Cardinality(m) |->
            (CHOOSE i \in m : Cardinality({j \in m : j < i}) = p - 1) - 1]

\* feature.dropna().apply(...): for every non-NaN row its position and the
\* matching rows; the lambda returns index[0], and raises when there is none
RECURSIVE Binned(_, _, _)
Binned(feature, p, intervals_range) ==
    IF p > Len(feature) THEN <<>>
    ELSE IF feature[p] = NaN THEN Binned(feature, p + 1, intervals_range)
    ELSE <<[row |-> p - 1, index |-> Matching(feature[p], intervals_range)]>>
         \o Binned(feature, p + 1, intervals_range)

\* feature_binning(feature, test_index, bins): the interval table and the
\* returned series, or the exception that ends the call
FeatureBinning(feature, test_index, bins) ==
    LET train_series == TrainSeries(feature, test_index)
        intervals == Intervals(train_series, bins)
    IN  IF intervals = <<>>
        THEN [raised |-> "IndexError", train_series |-> train_series,
              intervals_range |-> <<>>, binned |-> <<>>]
        ELSE LET intervals_range == IntervalsRange(intervals)
                 binned == Binned(feature, 1, intervals_range)
             IN  [raised |-> IF \E b \in Range(binned) : b.index = <<>>
                             THEN "IndexError" ELSE "none",
                  train_series |-> train_series,
                  intervals_range |-> intervals_range,
                  binned |-> binned]

(***************************************************************************)
(* The call sequence of feature_binning: the function is called on a       *)
(* feature; later the feature's rows at and after the boundary change or   *)
(* new rows arrive, and the function is called again.                      *)
(***************************************************************************)
TrainVals == {Num(v) : v \in 1..MaxVal} \cup {NaN}
TailVals == TrainVals \cup {Below, Above}

TestIndexes(n) ==
    {[kind |-> "int", at |-> k] : k \in 0..n}
    \cup {[kind |-> "str", at |-> p] : p \in 0..(n - 1)}

\* the position of the row at the boundary: the row at the ordinal, or the
\* row that carries the label
BoundaryRow(test_index) == test_index.at

NoCall == [raised |-> "none", train_series |-> <<>>,
           intervals_range |-> <<>>, binned |-> <<>>]

\* a component no call of which is under way
Idle == [pc |-> "idle"]

InitBinning ==
    /\ \E n \in 1..MaxLen, bins \in 1..MaxBins :
         \E test_index \in TestIndexes(n) :
           \E feature \in [1..n -> TailVals] :
             /\ \A i \in 1..n : InTrainSeries(feature, test_index, i - 1)
                                  => feature[i] \in TrainVals
             /\ binning = [pc |-> "ready", feature |-> feature,
                           test_index |-> test_index, bins |-> bins,
                           call |-> NoCall, called |-> FALSE,
                           first_range |-> <<>>]
    /\ evaluator = Idle
    /\ targets = Idle
    /\ returns = Idle
    /\ search = Idle
    /\ parallel = Idle
    /\ stats = Idle
    /\ candles = Idle
    /\ reports = Idle

\* one call of feature_binning; first_range keeps the interval table of the
\* first call
CallFeatureBinning ==
    /\ binning.pc = "ready"
    /\ LET r == FeatureBinning(binning.feature, binning.test_index, binning.bins)
       IN  binning' = [binning EXCEPT !.pc = "done", !.call = r,
                          !.called = TRUE,
                          !.first_range = IF binning.called THEN @
                                          ELSE r.intervals_range]
    /\ UNCHANGED <<evaluator, targets, returns, search,
                 parallel, stats, candles, reports>>

\* the data at a position at or after the boundary changes
TailChanges ==
    /\ binning.pc = "done"
    /\ \E i \in DOMAIN binning.feature, x \in TailVals :
         /\ i - 1 >= BoundaryRow(binning.test_index)
         /\ InTrainSeries(binning.feature, binning.test_index, i - 1)
              => x \in TrainVals
         /\ x # binning.feature[i]
         /\ binning' = [binning EXCEPT !.pc = "ready", !.feature[i] = x]
    /\ UNCHANGED <<evaluator, targets, returns, search,
                 parallel, stats, candles, reports>>

\* a new row arrives at the end of the feature
TailGrows ==
    /\ binning.pc = "done"
    /\ Len(binning.feature) < MaxLen
    /\ \E x \in TailVals :
         /\ InTrainSeries(Append(binning.feature, x), binning.test_index,
                          Len(binning.feature)) => x \in TrainVals
         /\ binning' = [binning EXCEPT !.pc = "ready",
                                        !.feature = Append(@, x)]
    /\ UNCHANGED <<evaluator, targets, returns, search,
                 parallel, stats, candles, reports>>

NextBinning == CallFeatureBinning \/ TailChanges \/ TailGrows

SpecBinning == InitBinning /\ [][NextBinning]_vars

(***************************************************************************)
(* The walk-forward split (DataHandler.model_pipeline, DataHandler         *)
(* .get_datasets, FeaturesCreator).  A frame is identified with the        *)
(* sequence of the positions of its rows; a float is the rational          *)
(* num / den.                                                              *)
(***************************************************************************)
MaxRows == 6
FractionDen == 4

\* the rows at positions a, ..., b - 1
Rows(a, b) == [i \in 1..(IF b > a THEN b - a ELSE 0) |-> a + i - 1]

\* a Python slice bound on a frame of n rows (a negative bound counts from
\* the end)
SliceBound(k, n) ==
    IF k < 0 THEN (IF n + k < 0 THEN 0 ELSE n + k)
    ELSE IF k > n THEN n ELSE k

\* data_frame.iloc[:k] and data_frame.iloc[k:]
IlocBefore(n, k) == Rows(0, SliceBound(k, n))
IlocFrom(n, k) == Rows(SliceBound(k, n), n)

\* data_frame.loc[:label] and data_frame.loc[label:], the label being that of
\* the row at position p: label slices keep both of their ends
LocUpTo(n, p) == Rows(0, p + 1)
LocFrom(n, p) == Rows(p, n)

\* int(n * num / den) for n * num >= 0
IntOfProduct(n, num, den) == (n * num) \div den

\* math.ceil(n * num / den)
CeilOfProduct(n, num, den) == (n * num + den - 1) \div den

NoError == [kind |-> "none", at |-> "none"]

\* test_size=0.5
Half == [num |-> 1, den |-> 2]

\* (mutant) the rows are dealt alternately to train and test
TrainTestSplit_Shuffled(rows, test_size) ==
    [raised |-> NoError,
     train |-> [i \in 1..(Len(rows) \div 2) |-> rows[2 * i]],
     test |-> [i \in 1..(Len(rows) - Len(rows) \div 2) |-> rows[2 * i - 1]]]

\* sklearn's train_test_split(..., test_size=num/den, shuffle=False): the
\* last ceil(test_size * n) rows are the test block; an empty train block
\* and a test_size outside (0, 1) are errors
TrainTestSplit(rows, test_size) ==
    LET n == Len(rows)
        n_test == CeilOfProduct(n, test_size.num, test_size.den)
        n_train == n - n_test
    IN  IF test_size.num <= 0 \/ test_size.num >= test_size.den \/ n_train <= 0
        THEN [raised |-> [kind |-> "ValueError", at |-> "train_test_split"],
              train |-> <<>>, test |-> <<>>]
        ELSE [raised |-> NoError,
              train |-> SubSeq(rows, 1, n_train),
              test |-> SubSeq(rows, n_train + 1, n_train + n_test)]

\* the outcome of a call that raised before it split anything
Raised(kind, at) ==
    [raised |-> [kind |-> kind, at |-> at],
     development |-> <<>>, validation |-> <<>>,
     X_train |-> <<>>, X_test |-> <<>>, fitted |-> FALSE,
     x_series |-> <<>>, validation_date |-> <<>>, returned |-> FALSE]

\* the split of the development data, the fit of the estimator on the train
\* block and the report on the test block followed by scored_validation
FitAndReport(development, validation, scored_validation, test_size) ==
    LET split == TrainTestSplit(development, test_size)
    IN  IF split.raised # NoError
        THEN [Raised(split.raised.kind, split.raised.at)
                EXCEPT !.development = development, !.validation = validation]
        ELSE IF validation = <<>>
        THEN [raised |-> [kind |-> "IndexError", at |-> "validation.index[0]"],
              development |-> development, validation |-> validation,
              X_train |-> split.train, X_test |-> split.test, fitted |-> TRUE,
              x_series |-> split.test \o scored_validation,
              validation_date |-> <<>>, returned |-> FALSE]
        ELSE [raised |-> NoError,
              development |-> development, validation |-> validation,
              X_train |-> split.train, X_test |-> split.test, fitted |-> TRUE,
              x_series |-> split.test \o scored_validation,
              validation_date |-> <<validation[1]>>, returned |-> TRUE]

\* (mutant) the upper end of the range is taken as a percentage
IsPercentageLocation_Closed(split_location) ==
    0 < split_location.num /\ split_location.num <= split_location.den

\* is_percentage_location = 0 < split_location < 1, for a number num / den
IsPercentageLocation(split_location) ==
    0 < split_location.num /\ split_location.num < split_location.den

\* DataHandler.model_pipeline on a frame of n rows.  split_location is
\* [type |-> "float", num, den], [type |-> "int", num |-> k, den |-> 1],
\* [type |-> "str", num |-> p, den |-> 1] (the label of the row at position
\* p) or of another type
ModelPipeline(n, split_location) ==
    IF split_location.type \notin {"str", "float", "int"}
    THEN Raised("ValueError", "split_location type")
    ELSE IF split_location.type = "str"
    THEN Raised("TypeError", "0 < split_location < 1")
    ELSE IF ~(split_location.type = "float" /\ IsPercentageLocation(split_location))
    THEN Raised("ValueError", "split_location range")
    ELSE LET split_index ==
                 IF IsPercentageLocation(split_location)
                 THEN IntOfProduct(n, split_location.den - split_location.num,
                                   split_location.den)
                 ELSE split_location.num
         IN  FitAndReport(IlocBefore(n, split_index), IlocFrom(n, split_index),
                          IlocFrom(n, split_index), Half)

\* DataHandler.get_datasets on a frame of n rows: no estimator is fitted
GetDatasets(n, test_size, split_size) ==
    LET split_index == IntOfProduct(n, split_size.num, split_size.den)
        development == IlocBefore(n, split_index)
        validation == IlocFrom(n, split_index)
        split == TrainTestSplit(development, test_size)
    IN  IF split.raised # NoError
        THEN [Raised(split.raised.kind, split.raised.at)
                EXCEPT !.development = development, !.validation = validation]
        ELSE [raised |-> NoError,
              development |-> development, validation |-> validation,
              X_train |-> split.train, X_test |-> split.test, fitted |-> FALSE,
              x_series |-> <<>>, validation_date |-> <<>>, returned |-> TRUE]

\* FeaturesCreator.calculate_model_returns(train_end_index=1526)
DefaultTrainEndIndex == 1526

\* an argument of type int, str (the label of the row at position num) or
\* None
IntArg(k) == [type |-> "int", num |-> k]
StrArg(p) == [type |-> "str", num |-> p]
NoneArg == [type |-> "NoneType", num |-> 0]

\* Python's truth value of an int, str or None argument (a label is a
\* non-empty string)
Truthy(arg) == arg.type = "str" \/ (arg.type = "int" /\ arg.num # 0)

\* FeaturesCreator.__init__ on a frame of n rows: validation_index,
\* train_development and train_development_index
FeaturesCreatorInit(n, validation_index) ==
    LET vi == IF Truthy(validation_index) THEN validation_index
              ELSE IntArg(IntOfProduct(n, 7, 10))
        train_development == IF vi.type = "str" THEN LocUpTo(n, vi.num)
                             ELSE IlocBefore(n, vi.num)
    IN  [validation_index |-> vi,
         train_development |-> train_development,
         train_development_index |->
             IntOfProduct(Len(train_development), 1, 2)]

\* validation[...].iloc[:-1]
AllButLast(rows) == SubSeq(rows, 1, Len(rows) - 1)

\* FeaturesCreator.calculate_results: development, validation, the unshuffled
\* split, the fit on the train block and the report
CalculateResults(n, self, test_size) ==
    LET vi == self.validation_index
        development == IF vi.type = "int" THEN IlocBefore(n, vi.num)
                       ELSE LocUpTo(n, vi.num)
        validation == IF vi.type = "int" THEN IlocFrom(n, vi.num)
                      ELSE LocFrom(n, vi.num)
    IN  FitAndReport(development, validation, AllButLast(validation), test_size)

\* the rows of train_development in calculate_features and
\* calculate_model_returns, on which the three interval tables are fitted:
\* train_end_index = train_end_index or self.train_development_index, then
\* data_frame.iloc[:train_end_index] (.loc for a label)
FitWindow(n, self, train_end_index) ==
    LET tei == IF Truthy(train_end_index) THEN train_end_index
               ELSE IntArg(self.train_development_index)
    IN  IF tei.type = "int" THEN IlocBefore(n, tei.num)
        ELSE LocUpTo(n, tei.num)

(***************************************************************************)
(* The calls of the evaluator on a frame of n rows.                        *)
(***************************************************************************)
Fractions == {[num |-> k, den |-> FractionDen] : k \in 0..FractionDen}

SplitLocations(n) ==
    {[type |-> "float", num |-> k, den |-> FractionDen] :
        k \in (0 - 1)..(FractionDen + 1)}
    \cup {[type |-> "int", num |-> k, den |-> 1] : k \in 0..n}
    \cup {[type |-> "str", num |-> p, den |-> 1] : p \in 0..(n - 1)}
    \cup {[type |-> "NoneType", num |-> 0, den |-> 1]}

IndexArgs(n) ==
    {NoneArg} \cup {IntArg(k) : k \in 0..n} \cup {StrArg(p) : p \in 0..(n - 1)}

NoOutcome == Raised("none", "none")

InitEvaluator ==
    /\ \E n \in 0..MaxRows :
         evaluator = [pc |-> "ready", n |-> n, op |-> "none",
                      split_location |-> [type |-> "NoneType", num |-> 0,
                                          den |-> 1],
                      validation_index |-> NoneArg, test_size |-> Half,
                      train_end_index |-> NoneArg,
                      out |-> NoOutcome, fit_window |-> <<>>]
    /\ binning = Idle
    /\ targets = Idle
    /\ returns = Idle
    /\ search = Idle
    /\ parallel = Idle
    /\ stats = Idle
    /\ candles = Idle
    /\ reports = Idle

CallModelPipeline ==
    /\ evaluator.pc = "ready"
    /\ \E split_location \in SplitLocations(evaluator.n) :
         evaluator' = [evaluator EXCEPT
             !.pc = "done", !.op = "model_pipeline",
             !.split_location = split_location,
             !.out = ModelPipeline(evaluator.n, split_location)]
    /\ UNCHANGED <<binning, targets, returns, search,
                 parallel, stats, candles, reports>>

CallGetDatasets ==
    /\ evaluator.pc = "ready"
    /\ \E test_size \in Fractions, split_size \in Fractions :
         evaluator' = [evaluator EXCEPT
             !.pc = "done", !.op = "get_datasets",
             !.split_location = [type |-> "float", num |-> split_size.num,
                                 den |-> split_size.den],
             !.test_size = test_size,
             !.out = GetDatasets(evaluator.n, test_size, split_size)]
    /\ UNCHANGED <<binning, targets, returns, search,
                 parallel, stats, candles, reports>>

\* FeaturesCreator(dataframe, ..., validation_index).calculate_results(
\* test_size=test_size)
CallCalculateResults ==
    /\ evaluator.pc = "ready"
    /\ \E validation_index \in IndexArgs(evaluator.n), test_size \in Fractions :
         LET self == FeaturesCreatorInit(evaluator.n, validation_index)
         IN  evaluator' = [evaluator EXCEPT
                 !.pc = "done", !.op = "calculate_results",
                 !.validation_index = self.validation_index,
                 !.test_size = test_size,
                 !.out = CalculateResults(evaluator.n, self, test_size)]
    /\ UNCHANGED <<binning, targets, returns, search,
                 parallel, stats, candles, reports>>

\* FeaturesCreator(...).calculate_features(based_on, train_end_index): the
\* tables are fitted on fit_window; out is what calculate_results, called
\* next with its default test_size, trains on
CallCalculateFeatures ==
    /\ evaluator.pc = "ready"
    /\ \E validation_index \in IndexArgs(evaluator.n),
          train_end_index \in IndexArgs(evaluator.n) :
         LET self == FeaturesCreatorInit(evaluator.n, validation_index)
         IN  evaluator' = [evaluator EXCEPT
                 !.pc = "done", !.op = "calculate_features",
                 !.validation_index = self.validation_index,
                 !.test_size = Half,
                 !.train_end_index = train_end_index,
                 !.fit_window = FitWindow(evaluator.n, self, train_end_index),
                 !.out = CalculateResults(evaluator.n, self, Half)]
    /\ UNCHANGED <<binning, targets, returns, search,
                 parallel, stats, candles, reports>>

\* FeaturesCreator(...).calculate_model_returns(value, indicator,
\* train_end_index=...): the tables are fitted on fit_window, then
\* calculate_results runs with its default test_size
CallCalculateModelReturns ==
    /\ evaluator.pc = "ready"
    /\ \E validation_index \in IndexArgs(evaluator.n),
          train_end_index \in IndexArgs(evaluator.n)
                              \cup {IntArg(DefaultTrainEndIndex)} :
         LET self == FeaturesCreatorInit(evaluator.n, validation_index)
         IN  evaluator' = [evaluator EXCEPT
                 !.pc = "done", !.op = "calculate_model_returns",
                 !.validation_index = self.validation_index,
                 !.test_size = Half,
                 !.train_end_index = train_end_index,
                 !.fit_window = FitWindow(evaluator.n, self, train_end_index),
                 !.out = CalculateResults(evaluator.n, self, Half)]
    /\ UNCHANGED <<binning, targets, returns, search,
                 parallel, stats, candles, reports>>

NextEvaluator ==
    \/ CallModelPipeline
    \/ CallGetDatasets
    \/ CallCalculateResults
    \/ CallCalculateFeatures
    \/ CallCalculateModelReturns

SpecEvaluator == InitEvaluator /\ [][NextEvaluator]_vars

(***************************************************************************)
(* DataHandler.calculate_targets.  A column value is NaN or the rational   *)
(* num / den with den > 0.                                                 *)
(***************************************************************************)
MaxPrice == 3
MaxHorizon == 3

Rat(n, d) == [nan |-> FALSE, num |-> n, den |-> d]
NaNValue == [nan |-> TRUE, num |-> 0, den |-> 1]

\* (mutant) a flat bar counts as a rise
IsAboveOne_OrEqual(r) == ~r.nan /\ r.num >= r.den

\* Target_1 > 1 (False on NaN)
IsAboveOne(r) == ~r.nan /\ r.num > r.den

\* close.pct_change(length) + 1: close[i] / close[i - length], NaN on the
\* first length rows
ReturnColumn(close, length) ==
    [i \in DOMAIN close |->
        IF i - length >= 1 THEN Rat(close[i], close[i - length]) ELSE NaNValue]

\* (mutant) the column is left where it is: the row's own return stands for
\* the forward return
ShiftBack_NoShift(column, length) == column

\* column.shift(-length): the value length rows later, NaN on the last
\* length rows
ShiftBack(column, length) ==
    [i \in DOMAIN column |->
        IF i + length <= Len(column) THEN column[i + length] ELSE NaNValue]

\* np.where(Target_1 > 1, 1, 0), then NaN wherever Target_1 is NaN
TargetBinColumn(target) ==
    [i \in DOMAIN target |->
        IF target[i].nan THEN NaNValue
        ELSE IF IsAboveOne(target[i]) THEN Rat(1, 1) ELSE Rat(0, 1)]

\* DataHandler.calculate_targets(length): the three columns added to the
\* frame
CalculateTargets(close, length) ==
    LET Return == ReturnColumn(close, length)
        Target_1 == ShiftBack(Return, length)
    IN  [Return |-> Return, Target_1 |-> Target_1,
         Target_1_bin |-> TargetBinColumn(Target_1)]

\* the price series of the label example
ExampleClose == <<100, 110, 99, 99>>

InitTargets ==
    /\ \E close \in (SeqsUpTo(1..MaxPrice, MaxLen) \ {<<>>}) \cup {ExampleClose},
          length \in 1..MaxHorizon :
         targets = [pc |-> "ready", close |-> close, length |-> length,
                    Return |-> <<>>, Target_1 |-> <<>>, Target_1_bin |-> <<>>]
    /\ binning = Idle
    /\ evaluator = Idle
    /\ returns = Idle
    /\ search = Idle
    /\ parallel = Idle
    /\ stats = Idle
    /\ candles = Idle
    /\ reports = Idle

CallCalculateTargets ==
    /\ targets.pc = "ready"
    /\ LET r == CalculateTargets(targets.close, targets.length)
       IN  targets' = [targets EXCEPT !.pc = "done", !.Return = r.Return,
                          !.Target_1 = r.Target_1,
                          !.Target_1_bin = r.Target_1_bin]
    /\ UNCHANGED <<binning, evaluator, returns, search,
                 parallel, stats, candles, reports>>

NextTargets == CallCalculateTargets

SpecTargets == InitTargets /\ [][NextTargets]_vars

(***************************************************************************)
(* calculate_returns.  An amount is an integer number of thousandths (One  *)
(* is 1.0); a column value that may be NaN is [nan, v]; a drawdown is the  *)
(* quotient num / den with den >= 0, den = 0 standing for +inf or -inf.    *)
(***************************************************************************)
MaxBars == 3
MaxWindow == 3

One == Scale

Abs(x) == IF x < 0 THEN -x ELSE x

Value(v) == [nan |-> FALSE, v |-> v]
NoValue == [nan |-> TRUE, v |-> 0]

\* filter_trades.astype(int): a float is truncated toward zero
AsTypeInt(f) ==
    IF f.num >= 0 THEN f.num \div f.den ELSE -((-f.num) \div f.den)

\* (mutant) the fee is charged on the sentinel bars too
WhereActive_FeeOnSentinel(Filter, Result, fee) ==
    [i \in DOMAIN Result |-> IF Filter[i] # 0 THEN Result[i] - fee ELSE 0]

\* np.where((Filter != 0) & (Result.abs() != 1), Result - fee, 0)
WhereActive(Filter, Result, fee) ==
    [i \in DOMAIN Result |->
        IF Filter[i] # 0 /\ Abs(Result[i]) # One THEN Result[i] - fee ELSE 0]

RECURSIVE SumUpTo(_, _)
SumUpTo(column, i) == IF i = 0 THEN 0 ELSE SumUpTo(column, i - 1) + column[i]

\* (mutant) the running sum without the anchor at 1
CumsumPlusOne_NoAnchor(column) == [i \in DOMAIN column |-> SumUpTo(column, i)]

\* column.cumsum() + 1
CumsumPlusOne(column) == [i \in DOMAIN column |-> SumUpTo(column, i) + One]

RECURSIVE MaxUpTo(_, _)
MaxUpTo(column, i) ==
    IF i = 1 THEN column[1]
    ELSE LET m == MaxUpTo(column, i - 1)
         IN  IF column[i] > m THEN column[i] ELSE m

\* column.expanding(min_periods).max(): NaN until min_periods observations
\* exist
ExpandingMax(column, min_periods) ==
    [i \in DOMAIN column |->
        IF i >= min_periods THEN Value(MaxUpTo(column, i)) ELSE NoValue]

\* column.diff(): NaN on the first row and wherever an operand is NaN
Diff(column) ==
    [i \in DOMAIN column |->
        IF i = 1 \/ column[i].nan \/ column[i - 1].nan THEN NoValue
        ELSE Value(column[i].v - column[i - 1].v)]

\* np.where(max.diff(), np.nan, max): a nonzero difference and a NaN
\* difference are both true
WhereUnchanged(max) ==
    LET d == Diff(max)
    IN  [i \in DOMAIN max |->
            IF d[i].nan \/ d[i].v # 0 THEN NoValue ELSE max[i]]

Quotient(n, d) == [num |-> n, den |-> d]

\* 1 - current / maximum in float arithmetic: x / 0 is +inf, -inf or NaN
OneMinusRatio(current, maximum) ==
    IF maximum.nan THEN NoValue
    ELSE IF maximum.v > 0
         THEN Value(Quotient(maximum.v - current, maximum.v))
    ELSE IF maximum.v < 0
         THEN Value(Quotient(current - maximum.v, -maximum.v))
    ELSE IF current = 0 THEN NoValue
    ELSE IF current > 0 THEN Value(Quotient(-1, 0))
    ELSE Value(Quotient(1, 0))

\* (1 - Liquid_Return / max_Liquid_Return).fillna(0)
DrawdownColumn(Liquid_Return, max_Liquid_Return) ==
    [i \in DOMAIN Liquid_Return |->
        LET r == OneMinusRatio(Liquid_Return[i], max_Liquid_Return[i])
        IN  IF r.nan THEN Quotient(0, 1) ELSE r.v]

\* df_returns["drawdown"] > 0
DrawdownPositive(drawdown) == [i \in DOMAIN drawdown |-> drawdown[i].num > 0]

\* (mutant) the groups are cut at the bars in drawdown, not at the others
GroupKey_OnPositive(drawdown_positive, i) ==
    Cardinality({j \in 1..i : drawdown_positive[j]})

\* (~drawdown_positive).cumsum()
GroupKey(drawdown_positive, i) ==
    Cardinality({j \in 1..i : ~drawdown_positive[j]})

\* drawdown_positive.groupby((~drawdown_positive).cumsum()).cumsum()
DrawdownDuration(drawdown_positive) ==
    [i \in DOMAIN drawdown_positive |->
        Cardinality({j \in 1..i :
            /\ GroupKey(drawdown_positive, j) = GroupKey(drawdown_positive, i)
            /\ drawdown_positive[j]})]

\* calculate_returns(gross_results, filter_trades, fee, drawdown_min_window):
\* the columns of df_returns
CalculateReturns(gross_results, filter_trades, fee, drawdown_min_window) ==
    LET Filter == [i \in DOMAIN filter_trades |-> AsTypeInt(filter_trades[i])]
        Result == WhereActive(Filter, gross_results, fee)
        Liquid_Result == WhereActive(Filter, Result, fee)
        Total_Return == CumsumPlusOne(Result)
        Liquid_Return == CumsumPlusOne(Liquid_Result)
        max_Liquid_Return ==
            WhereUnchanged(ExpandingMax(Liquid_Return, drawdown_min_window))
        drawdown == DrawdownColumn(Liquid_Return, max_Liquid_Return)
    IN  [Filter |-> Filter, Result |-> Result,
         Liquid_Result |-> Liquid_Result,
         Total_Return |-> Total_Return, Liquid_Return |-> Liquid_Return,
         max_Liquid_Return |-> max_Liquid_Return,
         drawdown |-> drawdown,
         drawdown_duration |-> DrawdownDuration(DrawdownPositive(drawdown))]

\* the inputs of the return/fee example: filter = [1, 1, 0, 1],
\* gross = [0.02, -0.01, 0.5, 1], fee = 0.001
ExampleFilter == <<Quotient(1, 1), Quotient(1, 1), Quotient(0, 1), Quotient(1, 1)>>
ExampleGross == <<20, -10, 500, 1000>>
ExampleFee == One \div 1000

\* the values a bar is drawn from: an active, an inactive and a fractional
\* filter; losses, gains, the sentinel and a gain of 1 + fee
FilterVals == {Quotient(0, 1), Quotient(1, 1), Quotient(1, 2)}
GrossVals == {-1500, -1000, -500, 500, 1250}
FeeVals == {0, 250}

NoFrame ==
    [Filter |-> <<>>, Result |-> <<>>, Liquid_Result |-> <<>>,
     Total_Return |-> <<>>, Liquid_Return |-> <<>>,
     max_Liquid_Return |-> <<>>, drawdown |-> <<>>,
     drawdown_duration |-> <<>>]

InitReturns ==
    /\ \E n \in 1..MaxBars :
         \E gross \in [1..n -> GrossVals], filter \in [1..n -> FilterVals],
            fee \in FeeVals, window \in 1..MaxWindow :
            returns = [pc |-> "ready", gross_results |-> gross,
                       filter_trades |-> filter, fee |-> fee,
                       drawdown_min_window |-> window, df_returns |-> NoFrame]
    /\ binning = Idle
    /\ evaluator = Idle
    /\ targets = Idle
    /\ search = Idle
    /\ parallel = Idle
    /\ stats = Idle
    /\ candles = Idle
    /\ reports = Idle

InitReturnsExample ==
    /\ \E window \in 1..MaxWindow :
         returns = [pc |-> "ready", gross_results |-> ExampleGross,
                    filter_trades |-> ExampleFilter, fee |-> ExampleFee,
                    drawdown_min_window |-> window, df_returns |-> NoFrame]
    /\ binning = Idle
    /\ evaluator = Idle
    /\ targets = Idle
    /\ search = Idle
    /\ parallel = Idle
    /\ stats = Idle
    /\ candles = Idle
    /\ reports = Idle

CallCalculateReturns ==
    /\ returns.pc = "ready"
    /\ returns' = [returns EXCEPT
                     !.pc = "done",
                     !.df_returns =
                        CalculateReturns(returns.gross_results,
                                         returns.filter_trades, returns.fee,
                                         returns.drawdown_min_window)]
    /\ UNCHANGED <<binning, evaluator, targets, search,
                 parallel, stats, candles, reports>>

NextReturns == CallCalculateReturns

SpecReturns == (InitReturns \/ InitReturnsExample) /\ [][NextReturns]_vars

(***************************************************************************)
(* FeaturesCreator.temp_indicator and the combination search of            *)
(* calculate_model_returns.  A value is [type |-> "int", v |-> k] or       *)
(* [type |-> "list", v |-> k] (the list [k, k]); a key is the sequence of  *)
(* the parts that the f-string joins.                                      *)
(***************************************************************************)
MaxPeriod == 3

SupportedIndicators == {"RSI", "rolling_ratio", "wick_proportion"}
IndicatorNames == SupportedIndicators \cup {"MACD"}

IntValue(k) == [type |-> "int", v |-> k]
ListValue(k) == [type |-> "list", v |-> k]

NoSeries == [indicator |-> "none", value |-> IntValue(0)]

\* (mutant) an unknown name falls back to the default indicator
TempIndicator_DefaultOnUnknown(value, indicator) ==
    IF indicator = "rolling_ratio" /\ value.type # "list"
    THEN [raised |-> "TypeError", message |-> <<"argument after * must be an iterable">>,
          series |-> NoSeries]
    ELSE IF indicator \in SupportedIndicators
    THEN [raised |-> "none", message |-> <<>>,
          series |-> [indicator |-> indicator, value |-> value]]
    ELSE [raised |-> "none", message |-> <<>>,
          series |-> [indicator |-> "RSI", value |-> value]]

\* FeaturesCreator.temp_indicator(value, indicator): the match statement;
\* rolling_ratio(*value) needs an iterable value
TempIndicator(value, indicator) ==
    IF indicator = "rolling_ratio" /\ value.type # "list"
    THEN [raised |-> "TypeError", message |-> <<"argument after * must be an iterable">>,
          series |-> NoSeries]
    ELSE IF indicator \in SupportedIndicators
    THEN [raised |-> "none", message |-> <<>>,
          series |-> [indicator |-> indicator, value |-> value]]
    ELSE [raised |-> "InvalidArgumentError",
          message |-> <<"Indicator ", indicator, " not found">>,
          series |-> NoSeries]

\* temp_variables
TempVariables == <<"temp_variable", "temp_variableH", "temp_variableL">>

\* itertools.combinations(items, r): the subsequences of r items, in
\* lexicographic order of their positions
RECURSIVE Combinations(_, _)
Combinations(items, r) ==
    IF r = 0 THEN << <<>> >>
    ELSE IF Len(items) < r THEN <<>>
    ELSE LET with == Combinations(Tail(items), r - 1)
         IN  [i \in DOMAIN with |-> <<Head(items)>> \o with[i]]
             \o Combinations(Tail(items), r)

\* (mutant) the loop stops before the subset of all three
CombinationSizes_UpToTwo == <<1, 2>>

\* range(1, 4)
CombinationSizes == <<1, 2, 3>>

\* all_combinations: the combinations of each size, appended in turn
RECURSIVE AllCombinationsUpTo(_)
AllCombinationsUpTo(k) ==
    IF k = 0 THEN <<>>
    ELSE AllCombinationsUpTo(k - 1)
         \o Combinations(TempVariables, CombinationSizes[k])

AllCombinations == AllCombinationsUpTo(Len(CombinationSizes))

\* (mutant) the key is built from the indicator that was asked for
ResultKey_FromIndicator(indicator, value, combination) ==
    <<indicator, value, "_", combination>>

\* f"RSI{value}_{combination}"
ResultKey(indicator, value, combination) == <<"RSI", value, "_", combination>>

\* d[key] = item on a dict kept as a sequence of [key, item] in insertion
\* order: an existing key keeps its place and takes the new item
DictSet(d, key, item) ==
    IF \E i \in DOMAIN d : d[i].key = key
    THEN [i \in DOMAIN d |->
            IF d[i].key = key THEN [key |-> key, item |-> item] ELSE d[i]]
    ELSE Append(d, [key |-> key, item |-> item])

\* the columns assigned by calculate_model_returns once the indicator is
\* computed
TempColumns ==
    {"temp_indicator", "temp_variable", "temp_variableH", "temp_variableL"}

\* self.calculate_results(features_columns=..., **params), and the column of
\* the report that is kept ("" keeps the whole report)
ResultItem(features_columns, results_column) ==
    [features_columns |-> features_columns, column |-> results_column]

\* the dict comprehension over all_combinations, up to the k-th combination
RECURSIVE ResultsUpTo(_, _, _, _, _)
ResultsUpTo(k, indicator, value, results_column, features) ==
    IF k = 0 THEN <<>>
    ELSE DictSet(ResultsUpTo(k - 1, indicator, value, results_column, features),
                 ResultKey(indicator, value, AllCombinations[k]),
                 ResultItem(AllCombinations[k] \o features, results_column))

\* FeaturesCreator.calculate_model_returns(value, indicator, ...,
\* results_column, features) on a frame with the given columns: the
\* indicator, the three binned columns, the search
CalculateModelReturns(columns, value, indicator, results_column, features) ==
    LET t == TempIndicator(value, indicator)
    IN  IF t.raised # "none"
        THEN [raised |-> t.raised, message |-> t.message, columns |-> columns,
              returned |-> FALSE, results |-> <<>>, calls |-> <<>>]
        ELSE [raised |-> "none", message |-> <<>>,
              columns |-> columns \cup TempColumns,
              returned |-> TRUE,
              results |-> ResultsUpTo(Len(AllCombinations), indicator, value,
                                      results_column, features),
              calls |-> [k \in DOMAIN AllCombinations |->
                            AllCombinations[k] \o features]]

PriceColumns == {"open", "high", "low", "close"}

\* the values that an indicator is called with: a period for RSI, a period
\* or a list of periods for the others
ValuesFor(indicator) ==
    {IntValue(k) : k \in 1..MaxPeriod}
    \cup (IF indicator = "RSI" THEN {}
          ELSE {ListValue(k) : k \in 1..MaxPeriod})

NoSearch ==
    [raised |-> "none", message |-> <<>>, columns |-> PriceColumns,
     returned |-> FALSE, results |-> <<>>, calls |-> <<>>]

InitSearch ==
    /\ \E indicator \in IndicatorNames :
         \E value \in ValuesFor(indicator),
            results_column \in {"", "drawdown"},
            features \in {<<>>, <<"extra_feature">>} :
            search = [pc |-> "ready", op |-> "none", indicator |-> indicator,
                      value |-> value, results_column |-> results_column,
                      features |-> features, series |-> NoSeries,
                      out |-> NoSearch]
    /\ binning = Idle
    /\ evaluator = Idle
    /\ targets = Idle
    /\ returns = Idle
    /\ parallel = Idle
    /\ stats = Idle
    /\ candles = Idle
    /\ reports = Idle

\* temp_indicator called on its own
CallTempIndicator ==
    /\ search.pc = "ready"
    /\ LET t == TempIndicator(search.value, search.indicator)
       IN  search' = [search EXCEPT
                        !.pc = "done", !.op = "temp_indicator",
                        !.series = t.series,
                        !.out = [NoSearch EXCEPT !.raised = t.raised,
                                                 !.message = t.message,
                                                 !.returned = t.raised = "none"]]
    /\ UNCHANGED <<binning, evaluator, targets, returns,
                 parallel, stats, candles, reports>>

CallSearch ==
    /\ search.pc = "ready"
    /\ search' = [search EXCEPT
                    !.pc = "done", !.op = "calculate_model_returns",
                    !.series = TempIndicator(search.value, search.indicator).series,
                    !.out = CalculateModelReturns(PriceColumns, search.value,
                                                  search.indicator,
                                                  search.results_column,
                                                  search.features)]
    /\ UNCHANGED <<binning, evaluator, targets, returns,
                 parallel, stats, candles, reports>>

NextSearch == CallTempIndicator \/ CallSearch

SpecSearch == InitSearch /\ [][NextSearch]_vars

(***************************************************************************)
(* The fit/evaluate cycles of one combination search, one thread per       *)
(* combination.  A cycle fits a model on its own columns, dumps it to      *)
(* "xgboost_model.pkl" (save_model defaults to True and the search does    *)
(* not pass it) and returns its report.  mode "sequential" is the order    *)
(* of the dict comprehension; mode "parallel" is any interleaving.         *)
(***************************************************************************)
Cycles == DOMAIN AllCombinations

NoModel == <<>>

\* model.fit(X_train, y_train) on the columns of the combination
FittedModel(k) == AllCombinations[k]

\* (mutant) the file is opened for appending: the first dump stays first
PickleDump_Append(file, model) == IF file = NoModel THEN model ELSE file

\* with open("xgboost_model.pkl", "wb") as file: pickle.dump(model, file)
PickleDump(file, model) == model

InitParallel ==
    /\ \E mode \in {"sequential", "parallel"} :
         parallel = [mode |-> mode,
                     pc |-> [k \in Cycles |-> "start"],
                     model |-> [k \in Cycles |-> NoModel],
                     results |-> [k \in Cycles |-> NoModel],
                     file |-> NoModel]
    /\ binning = Idle
    /\ evaluator = Idle
    /\ targets = Idle
    /\ returns = Idle
    /\ search = Idle
    /\ stats = Idle
    /\ candles = Idle
    /\ reports = Idle

\* cycle k may take a step: always in parallel mode, after the cycles before
\* it have returned in sequential mode
MayRun(k) ==
    \/ parallel.mode = "parallel"
    \/ \A j \in Cycles : j < k => parallel.pc[j] = "returned"

FitModel(k) ==
    /\ MayRun(k)
    /\ parallel.pc[k] = "start"
    /\ parallel' = [parallel EXCEPT !.pc[k] = "fitted",
                                    !.model[k] = FittedModel(k)]
    /\ UNCHANGED <<binning, evaluator, targets, returns, search, stats,
                   candles, reports>>

SaveModel(k) ==
    /\ MayRun(k)
    /\ parallel.pc[k] = "fitted"
    /\ parallel' = [parallel EXCEPT
                      !.pc[k] = "saved",
                      !.file = PickleDump(parallel.file, parallel.model[k])]
    /\ UNCHANGED <<binning, evaluator, targets, returns, search, stats,
                   candles, reports>>

ReturnReport(k) ==
    /\ MayRun(k)
    /\ parallel.pc[k] = "saved"
    /\ parallel' = [parallel EXCEPT !.pc[k] = "returned",
                                    !.results[k] = parallel.model[k]]
    /\ UNCHANGED <<binning, evaluator, targets, returns, search, stats,
                   candles, reports>>

NextParallel ==
    \E k \in Cycles : FitModel(k) \/ SaveModel(k) \/ ReturnReport(k)

SpecParallel == InitParallel /\ [][NextParallel]_vars

(***************************************************************************)
(* Statistics.  A result is NaN or an integer amount, kept as the rational *)
(* [nan, num, den]; a mean and a rate are rationals.                       *)
(***************************************************************************)
MaxTrades == 3
MaxResult == 2
MaxCalls == 2

RMul(a, b) ==
    IF a.nan \/ b.nan THEN NaNValue ELSE Rat(a.num * b.num, a.den * b.den)

RSub(a, b) ==
    IF a.nan \/ b.nan THEN NaNValue
    ELSE Rat(a.num * b.den - b.num * a.den, a.den * b.den)

RAbs(a) == IF a.nan THEN NaNValue ELSE Rat(Abs(a.num), a.den)

\* count / total on two integer columns: 0 / 0 is NaN
Rate(count, total) == IF total = 0 THEN NaNValue ELSE Rat(count, total)

IsGain(r) == ~r.nan /\ r.num > 0

\* (mutant) every row that is not a gain counts as a loss
IsLoss_NotGain(r) == r.nan \/ r.num < 0

IsLoss(r) == ~r.nan /\ r.num < 0

\* self.dataframe[["Result"]].query("Result != 0").dropna(), assigned back on
\* the index of the frame: a zero and a NaN become NaN
DropZeroAndNa(Result) ==
    [i \in DOMAIN Result |->
        IF Result[i].nan \/ Result[i].num = 0 THEN NaNValue ELSE Result[i]]

\* (mutant) a frame without a 'Result' column is read as an empty series
StatisticsInit_NoCheck(kind, Result, is_percent) ==
    [raised |-> "none", is_percent |-> is_percent,
     Result |-> IF kind = "DataFrame without Result" THEN <<>>
                ELSE DropZeroAndNa(Result)]

\* Statistics.__init__(dataframe, is_percent=...): kind is "Series",
\* "DataFrame with Result" or "DataFrame without Result"
StatisticsInit(kind, Result, is_percent) ==
    IF kind = "DataFrame without Result"
    THEN [raised |-> "ValueError", is_percent |-> is_percent, Result |-> <<>>]
    ELSE [raised |-> "none", is_percent |-> is_percent,
          Result |-> DropZeroAndNa(Result)]

\* np.where(mask, 1, 0).cumsum()
CountUpTo(selected, i) == Cardinality({j \in 1..i : selected[j]})

RECURSIVE TotalUpTo(_, _, _)
\* np.where(mask, Result, 0).cumsum()
TotalUpTo(Result, selected, i) ==
    IF i = 0 THEN 0
    ELSE TotalUpTo(Result, selected, i - 1)
         + (IF selected[i] THEN Result[i].num ELSE 0)

\* query(...)["Result"].expanding().mean(), assigned on the index of the
\* frame: the mean of the selected results so far on a selected row, NaN on
\* the other rows
ExpandingMean(Result, selected) ==
    [i \in DOMAIN Result |->
        IF selected[i]
        THEN Rat(TotalUpTo(Result, selected, i), CountUpTo(selected, i))
        ELSE NaNValue]

RECURSIVE FillForward(_)
\* fillna(method="ffill")
FillForward(column) ==
    IF column = <<>> THEN <<>>
    ELSE LET front == FillForward(SubSeq(column, 1, Len(column) - 1))
             last == column[Len(column)]
         IN  Append(front,
                    IF last.nan /\ front # <<>> THEN front[Len(front)]
                    ELSE last)

\* (mutant) the loss term is subtracted with its sign
ExpectedValueOf_Signed(mean_gain, win_rate, mean_loss, loss_rate) ==
    RSub(RMul(mean_gain, win_rate), RMul(mean_loss, loss_rate))

\* ev_gain - abs(ev_loss)
ExpectedValueOf(mean_gain, win_rate, mean_loss, loss_rate) ==
    RSub(RMul(mean_gain, win_rate), RAbs(RMul(mean_loss, loss_rate)))

\* if self.is_percent: self.dataframe = self.dataframe * 100
ScalePercent(Result, is_percent) ==
    IF is_percent
    THEN [i \in DOMAIN Result |->
            IF Result[i].nan THEN NaNValue ELSE Rat(Result[i].num * 100, 1)]
    ELSE Result

\* Statistics.calculate_expected_value(): the columns of self.dataframe
CalculateExpectedValue(self) ==
    LET Result == ScalePercent(self.Result, self.is_percent)
        rows == DOMAIN Result
        gain == [i \in rows |-> IsGain(Result[i])]
        loss == [i \in rows |-> IsLoss(Result[i])]
        Gain_Count == [i \in rows |-> CountUpTo(gain, i)]
        Loss_Count == [i \in rows |-> CountUpTo(loss, i)]
        Mean_Gain == FillForward(ExpandingMean(Result, gain))
        Mean_Loss == FillForward(ExpandingMean(Result, loss))
        Total_Trade == [i \in rows |-> Gain_Count[i] + Loss_Count[i]]
        Win_Rate == [i \in rows |-> Rate(Gain_Count[i], Total_Trade[i])]
        Loss_Rate == [i \in rows |-> Rate(Loss_Count[i], Total_Trade[i])]
    IN  [Result |-> Result,
         Gain_Count |-> Gain_Count, Loss_Count |-> Loss_Count,
         Mean_Gain |-> Mean_Gain, Mean_Loss |-> Mean_Loss,
         Total_Gain |-> [i \in rows |-> TotalUpTo(Result, gain, i)],
         Total_Loss |-> [i \in rows |-> TotalUpTo(Result, loss, i)],
         Total_Trade |-> Total_Trade,
         Win_Rate |-> Win_Rate, Loss_Rate |-> Loss_Rate,
         Expected_Value |->
            [i \in rows |-> ExpectedValueOf(Mean_Gain[i], Win_Rate[i],
                                            Mean_Loss[i], Loss_Rate[i])]]

NoColumns ==
    [Result |-> <<>>, Gain_Count |-> <<>>, Loss_Count |-> <<>>,
     Mean_Gain |-> <<>>, Mean_Loss |-> <<>>, Total_Gain |-> <<>>,
     Total_Loss |-> <<>>, Total_Trade |-> <<>>, Win_Rate |-> <<>>,
     Loss_Rate |-> <<>>, Expected_Value |-> <<>>]

ResultVals == {NaNValue} \cup {Rat(v, 1) : v \in (0 - MaxResult)..MaxResult}

DataframeKinds == {"Series", "DataFrame with Result", "DataFrame without Result"}

InitStatistics ==
    /\ \E n \in 1..MaxTrades :
         \E Result \in [1..n -> ResultVals], kind \in DataframeKinds,
            is_percent \in BOOLEAN :
            stats = [pc |-> "new", kind |-> kind, dataframe |-> Result,
                     is_percent |-> is_percent,
                     self |-> [raised |-> "none", is_percent |-> is_percent,
                               Result |-> <<>>],
                     calls |-> 0, columns |-> NoColumns, first |-> NoColumns]
    /\ binning = Idle
    /\ evaluator = Idle
    /\ targets = Idle
    /\ returns = Idle
    /\ search = Idle
    /\ parallel = Idle
    /\ candles = Idle
    /\ reports = Idle

NewStatistics ==
    /\ stats.pc = "new"
    /\ LET self == StatisticsInit(stats.kind, stats.dataframe, stats.is_percent)
       IN  stats' = [stats EXCEPT
                       !.pc = IF self.raised = "none" THEN "ready" ELSE "failed",
                       !.self = self]
    /\ UNCHANGED <<binning, evaluator, targets, returns, search, parallel,
                   candles, reports>>

CallCalculateExpectedValue ==
    /\ stats.pc = "ready"
    /\ stats.calls < MaxCalls
    /\ LET columns == CalculateExpectedValue(stats.self)
       IN  stats' = [stats EXCEPT
                       !.calls = @ + 1,
                       !.self.Result = columns.Result,
                       !.columns = columns,
                       !.first = IF stats.calls = 0 THEN columns ELSE @]
    /\ UNCHANGED <<binning, evaluator, targets, returns, search, parallel,
                   candles, reports>>

(***************************************************************************)
(* DataHandler.result_metrics.                                             *)
(***************************************************************************)
\* a / b on two floats, b not NaN and not zero
RDiv(a, b) ==
    IF a.nan \/ b.nan THEN NaNValue
    ELSE IF b.num > 0 THEN Rat(a.num * b.den, a.den * b.num)
    ELSE Rat(-(a.num * b.den), -(a.den * b.num))

\* (data_frame - 1) * 100
PercentageData(data) ==
    [i \in DOMAIN data |->
        IF data[i].nan THEN NaNValue ELSE Rat((data[i].num - 1) * 100, 1)]

\* Series.mean() of the selected values: NaN when none is selected
MeanOf(data, selected) ==
    IF CountUpTo(selected, Len(data)) = 0 THEN NaNValue
    ELSE Rat(TotalUpTo(data, selected, Len(data)),
             CountUpTo(selected, Len(data)))

NoMetrics ==
    [raised |-> "none", returned |-> FALSE, Expected_Return |-> NaNValue,
     Win_Rate |-> NaNValue, Positive_Mean |-> NaNValue,
     Negative_Mean |-> NaNValue, Payoff |-> NaNValue, Observations |-> 0]

MetricsRaised(kind) == [NoMetrics EXCEPT !.raised = kind]

\* result_column is None and the data is not a Series
NeedsResultColumn(kind, result_column) ==
    result_column = "None" /\ kind # "Series"

\* DataHandler.result_metrics(result_column, is_percentage_data,
\* output_format) on a Series or on a DataFrame whose column "Result" holds
\* the data
ResultMetrics(kind, data_frame, result_column, is_percentage_data, output_format) ==
    LET data == IF is_percentage_data THEN PercentageData(data_frame)
                ELSE data_frame
        above_zero == [i \in DOMAIN data |-> IsGain(data[i])]
        below_zero == [i \in DOMAIN data |-> IsLoss(data[i])]
        positive == CountUpTo(above_zero, Len(data))
        negative == CountUpTo(below_zero, Len(data))
        positive_mean == MeanOf(data, above_zero)
        negative_mean == MeanOf(data, below_zero)
        win_rate == Rat(positive, positive + negative)
    IN  IF output_format \notin {"dict", "Series", "DataFrame"}
        THEN MetricsRaised("ValueError")
        ELSE IF NeedsResultColumn(kind, result_column)
        THEN MetricsRaised("ValueError")
        ELSE IF result_column # "None" /\ kind = "Series"
        THEN MetricsRaised("AttributeError")
        ELSE IF positive + negative = 0
        THEN MetricsRaised("ZeroDivisionError")
        ELSE [raised |-> "none", returned |-> TRUE,
              Expected_Return |->
                 RSub(RMul(positive_mean, win_rate),
                      RMul(negative_mean, RSub(win_rate, Rat(1, 1)))),
              Win_Rate |-> win_rate,
              Positive_Mean |-> positive_mean,
              Negative_Mean |-> negative_mean,
              Payoff |-> RDiv(positive_mean, RAbs(negative_mean)),
              Observations |-> positive + negative]

InitResultMetrics ==
    /\ \E n \in 1..MaxTrades :
         \E data \in [1..n -> ResultVals], kind \in {"Series", "DataFrame"},
            result_column \in {"None", "Result"},
            is_percentage_data \in BOOLEAN,
            output_format \in {"dict", "Series", "DataFrame", "list"} :
            reports = [pc |-> "ready", op |-> "result_metrics",
                       kind |-> kind, data_frame |-> data,
                       result_column |-> result_column,
                       is_percentage_data |-> is_percentage_data,
                       output_format |-> output_format, out |-> NoMetrics]
    /\ binning = Idle
    /\ evaluator = Idle
    /\ targets = Idle
    /\ returns = Idle
    /\ search = Idle
    /\ parallel = Idle
    /\ stats = Idle
    /\ candles = Idle

CallResultMetrics ==
    /\ reports.pc = "ready"
    /\ reports.op = "result_metrics"
    /\ reports' = [reports EXCEPT
                     !.pc = "done",
                     !.out = ResultMetrics(reports.kind, reports.data_frame,
                                           reports.result_column,
                                           reports.is_percentage_data,
                                           reports.output_format)]
    /\ UNCHANGED <<binning, evaluator, targets, returns, search, parallel,
                   stats, candles>>

NextStatistics ==
    NewStatistics \/ CallCalculateExpectedValue \/ CallResultMetrics

SpecStatistics ==
    (InitStatistics \/ InitResultMetrics) /\ [][NextStatistics]_vars

(***************************************************************************)
(* FeaturesCreator.temp_indicator("wick_proportion", ...): the wick of     *)
(* each candle relative to its range.  Prices are integers; a quotient is  *)
(* a float: a number, NaN, +inf or -inf.                                   *)
(***************************************************************************)
MaxCandles == 2

Finite(n, d) == [kind |-> "num", num |-> n, den |-> d]

NotANumber == [kind |-> "nan", num |-> 0, den |-> 1]

Infinite(sign) == [kind |-> "inf", num |-> sign, den |-> 1]

\* x / amplitude on floats: 0 / 0 is NaN and x / 0 is +inf or -inf
FloatDivide(x, amplitude) ==
    IF amplitude # 0 THEN Finite(x, amplitude)
    ELSE IF x = 0 THEN NotANumber
    ELSE IF x > 0 THEN Infinite(1)
    ELSE Infinite(-1)

\* (mutant) the quotients are returned as computed
FillNaZero_Kept(column) == column

\* Series.fillna(0)
FillNaZero(column) ==
    [i \in DOMAIN column |->
        IF column[i].kind = "nan" THEN Finite(0, 1) ELSE column[i]]

\* the "wick_proportion" case of temp_indicator
WickProportion(data_frame) ==
    LET candle_amplitude ==
            [i \in DOMAIN data_frame |->
                data_frame[i].high - data_frame[i].low]
        wick_proportion ==
            [i \in DOMAIN data_frame |->
                IF data_frame[i].close > data_frame[i].open
                THEN FloatDivide(data_frame[i].high - data_frame[i].close,
                                 candle_amplitude[i])
                ELSE FloatDivide(data_frame[i].close - data_frame[i].low,
                                 candle_amplitude[i])]
    IN  FillNaZero(wick_proportion)

\* the rows of an OHLC frame: the low and the high of a bar bound its open
\* and its close
Candles ==
    {c \in [open : 1..MaxPrice, high : 1..MaxPrice, low : 1..MaxPrice,
            close : 1..MaxPrice] :
        /\ c.low <= c.open /\ c.open <= c.high
        /\ c.low <= c.close /\ c.close <= c.high}

InitCandles ==
    /\ \E n \in 1..MaxCandles : \E data_frame \in [1..n -> Candles] :
          candles = [pc |-> "ready", data_frame |-> data_frame,
                     wick_proportion |-> <<>>]
    /\ binning = Idle
    /\ evaluator = Idle
    /\ targets = Idle
    /\ returns = Idle
    /\ search = Idle
    /\ parallel = Idle
    /\ stats = Idle
    /\ reports = Idle

CallWickProportion ==
    /\ candles.pc = "ready"
    /\ candles' = [candles EXCEPT
                     !.pc = "done",
                     !.wick_proportion = WickProportion(candles.data_frame)]
    /\ UNCHANGED <<binning, evaluator, targets, returns, search, parallel,
                   stats, reports>>

NextCandles == CallWickProportion

SpecCandles == InitCandles /\ [][NextCandles]_vars

(***************************************************************************)
(* model_reports: an argument is None, a Series or a DataFrame, with its   *)
(* number of rows; the outcome is the exception raised and the sections    *)
(* printed.                                                                *)
(***************************************************************************)
MaxSetLen == 2

None == [kind |-> "None", len |-> 0]

Series(n) == [kind |-> "Series", len |-> n]

DataFrame(n) == [kind |-> "DataFrame", len |-> n]

metric_list == {"report", "difference", "all_1", "all_0"}

ReportsRaised(kind) == [raised |-> kind, printed |-> <<>>]

\* len(y) raises TypeError when y is None
LenRaises(y) == y.kind = "None"

\* the sections printed for a metric: train, test and, when a validation
\* set is given, validation
Sections(y_true_validation) ==
    IF y_true_validation.kind # "None"
    THEN <<"Train", "Test", "Validation">>
    ELSE <<"Train", "Test">>

ModelReports(y_pred_all, y_true_train, y_true_test, y_true_validation, metric) ==
    LET datasets_length ==
            y_true_train.len + y_true_test.len + y_true_validation.len
    IN  IF LenRaises(y_true_validation) THEN ReportsRaised("TypeError")
        ELSE IF \E y \in {y_pred_all, y_true_train, y_true_test,
                          y_true_validation} : y.kind = "DataFrame"
        THEN ReportsRaised("TypeError")
        ELSE IF metric \notin metric_list THEN ReportsRaised("ValueError")
        ELSE IF y_pred_all.len # datasets_length
        THEN ReportsRaised("ValueError")
        ELSE [raised |-> "none", printed |-> Sections(y_true_validation)]

Targets(max) ==
    {Series(n) : n \in 1..max} \cup {DataFrame(n) : n \in 1..max}

InitModelReports ==
    /\ \E y_pred_all \in Targets(3 * MaxSetLen),
          y_true_train \in Targets(MaxSetLen),
          y_true_test \in Targets(MaxSetLen),
          y_true_validation \in Targets(MaxSetLen) \cup {None},
          metric \in metric_list \cup {"accuracy"} :
          reports = [pc |-> "ready", op |-> "model_reports",
                     y_pred_all |-> y_pred_all,
                     y_true_train |-> y_true_train,
                     y_true_test |-> y_true_test,
                     y_true_validation |-> y_true_validation,
                     metric |-> metric, out |-> ReportsRaised("none")]
    /\ binning = Idle
    /\ evaluator = Idle
    /\ targets = Idle
    /\ returns = Idle
    /\ search = Idle
    /\ parallel = Idle
    /\ stats = Idle
    /\ candles = Idle

CallModelReports ==
    /\ reports.pc = "ready"
    /\ reports.op = "model_reports"
    /\ reports' = [reports EXCEPT
                     !.pc = "done",
                     !.out = ModelReports(reports.y_pred_all,
                                          reports.y_true_train,
                                          reports.y_true_test,
                                          reports.y_true_validation,
                                          reports.metric)]
    /\ UNCHANGED <<binning, evaluator, targets, returns, search, parallel,
                   stats, candles>>

NextReports == CallModelReports

SpecReports == InitModelReports /\ [][NextReports]_vars

(***************************************************************************)
(* Claims on feature_binning.                                              *)
(***************************************************************************)
BinningDone == binning.pc = "done"
Fitted == BinningDone /\ binning.call.intervals_range # <<>>

\* the non-NaN values of the training window, as integers
TrainNums ==
    {x[2] : x \in Range(binning.call.train_series) \ {NaN}}

\* C1 as stated: once the interval table is fitted, the lookup of every
\* non-NaN value of the feature finds a row, so the call does not raise
C1_EveryValueBinned ==
    Fitted => /\ binning.call.raised = "none"
              /\ \A b \in Range(binning.call.binned) : Len(b.index) >= 1

\* C1 between the sentinels: once the interval table is fitted, the lookup of every
\* non-NaN value between the two sentinels (those under the training minimum
\* and over the training maximum included) finds a row and yields one bin
\* index, whatever the counts of the quantile bins
C1_ValuesWithinSentinelsBinned ==
    Fitted =>
        \A b \in Range(binning.call.binned) :
            binning.feature[b.row + 1] \notin {Below, Above}
                => /\ Len(b.index) >= 1
                   /\ b.index[1] \in 0..(Len(binning.call.intervals_range) - 1)

\* a fitted table, a value under the training minimum and one over the
\* training maximum, both looked up
C1_Witness ==
    /\ Fitted
    /\ binning.call.raised = "none"
    /\ \E x, y \in Range(binning.feature) \ {NaN, Below, Above} :
         /\ \A t \in TrainNums : x[2] < t
         /\ \A t \in TrainNums : y[2] > t

\* C2: the interval table, sorted by upper bound, starts at the negative
\* sentinel, ends at the positive sentinel, and each row starts where the
\* row before it ends (monotonic bounds, no overlap, no gap)
C2_IntervalTable ==
    Fitted =>
        LET t == binning.call.intervals_range
        IN  /\ t[1].lowest = NegSentinel
            /\ t[Len(t)].highest = PosSentinel
            /\ \A i \in DOMAIN t :
                 Leq(t[i].lowest, t[i].highest) /\ t[i].lowest # t[i].highest
            /\ \A i \in 1..(Len(t) - 1) : t[i + 1].lowest = t[i].highest

\* C3: whatever the data at and after the boundary becomes, a later call
\* computes the interval table that the first call fitted
C3_NoLeakage ==
    BinningDone /\ binning.first_range # <<>>
        => binning.call.intervals_range = binning.first_range

\* C4: every row of the training slice strictly precedes the row at the
\* boundary, for an ordinal and for a label
C4_TrainStrictlyBeforeBoundary ==
    BinningDone =>
        \A p \in 0..(Len(binning.call.train_series) - 1) :
            p < BoundaryRow(binning.test_index)

(***************************************************************************)
(* Claims on the walk-forward split.                                       *)
(***************************************************************************)
EvaluatorDone == evaluator.pc = "done"

SetOf(rows) == {rows[i] : i \in DOMAIN rows}

\* C5: with the default arguments of calculate_features and
\* calculate_model_returns, every row of the window on which the interval
\* tables are fitted is a row of the block the classifier is trained on
C5_FitWindowInsideTrainBlock ==
    /\ EvaluatorDone
    /\ evaluator.out.fitted
    /\ \/ /\ evaluator.op = "calculate_features"
          /\ evaluator.train_end_index = NoneArg
       \/ /\ evaluator.op = "calculate_model_returns"
          /\ evaluator.train_end_index = IntArg(DefaultTrainEndIndex)
    => SetOf(evaluator.fit_window) \subseteq SetOf(evaluator.out.X_train)

\* C6: whenever the development data is split into train and test, every
\* train row is earlier than every test row, and train followed by test is
\* the development segment
C6_WalkForwardOrdering ==
    EvaluatorDone /\ evaluator.out.X_train # <<>> =>
        /\ \A a \in SetOf(evaluator.out.X_train),
              b \in SetOf(evaluator.out.X_test) : a < b
        /\ SetOf(evaluator.out.X_train) \cap SetOf(evaluator.out.X_test) = {}
        /\ evaluator.out.X_train \o evaluator.out.X_test
             = evaluator.out.development

\* a split with a test size other than one half, two train rows or more and
\* two test rows or more
C6_Witness ==
    /\ EvaluatorDone
    /\ evaluator.op \in {"get_datasets", "calculate_results"}
    /\ 2 * evaluator.test_size.num # evaluator.test_size.den
    /\ Len(evaluator.out.X_train) >= 2
    /\ Len(evaluator.out.X_test) >= 2

\* C7: development and validation are disjoint, every development row is
\* earlier than every validation row, and together they are the frame
C7_DevelopmentBeforeValidation ==
    EvaluatorDone /\ evaluator.out.returned
    => /\ \A a \in SetOf(evaluator.out.development),
             b \in SetOf(evaluator.out.validation) : a < b
       /\ evaluator.out.development \o evaluator.out.validation
            = Rows(0, evaluator.n)

\* the position at which a split location of one of the three documented
\* forms cuts a frame of n rows
DocumentedPosition(n, loc) ==
    IF loc.type = "float" THEN IntOfProduct(n, loc.den - loc.num, loc.den)
    ELSE loc.num

\* C8: model_pipeline, given a fraction in (0,1), an ordinal or a label
\* that leaves two development rows or more and a validation row, fits the
\* estimator and returns the report without raising
C8_ThreeFormsAccepted ==
    /\ EvaluatorDone
    /\ evaluator.op = "model_pipeline"
    /\ LET loc == evaluator.split_location
       IN  /\ loc.type \in {"float", "int", "str"}
           /\ loc.type = "float" => 0 < loc.num /\ loc.num < loc.den
           /\ DocumentedPosition(evaluator.n, loc) >= 2
           /\ DocumentedPosition(evaluator.n, loc) < evaluator.n
    => /\ evaluator.out.raised = NoError
       /\ evaluator.out.fitted
       /\ evaluator.out.returned

\* model_pipeline was called with a float outside (0,1)
FloatOutsideUnitInterval ==
    /\ EvaluatorDone
    /\ evaluator.op = "model_pipeline"
    /\ evaluator.split_location.type = "float"
    /\ ~(0 < evaluator.split_location.num
         /\ evaluator.split_location.num < evaluator.split_location.den)

\* C9 as stated: a float outside (0,1) fails with a type error at the start
\* of the call; nothing is fitted or returned
C9_TypeErrorOnFloatOutsideRange ==
    FloatOutsideUnitInterval =>
        /\ evaluator.out.raised.kind = "TypeError"
        /\ ~evaluator.out.fitted
        /\ ~evaluator.out.returned

\* C9 amended: a float outside (0,1) fails with a ValueError raised by the
\* range check at the start of the call, before the frame is split; nothing
\* is fitted or returned
C9_ValueErrorOnFloatOutsideRange ==
    FloatOutsideUnitInterval =>
        /\ evaluator.out.raised
             = [kind |-> "ValueError", at |-> "split_location range"]
        /\ evaluator.out.development = <<>>
        /\ evaluator.out.validation = <<>>
        /\ ~evaluator.out.fitted
        /\ ~evaluator.out.returned

\* a call with a float of 1 or more on a frame of two rows or more
C9_Witness ==
    /\ FloatOutsideUnitInterval
    /\ evaluator.split_location.num >= evaluator.split_location.den
    /\ evaluator.n >= 2
    /\ evaluator.out.raised.kind = "ValueError"

(***************************************************************************)
(* Claims on calculate_targets.                                            *)
(***************************************************************************)
\* the column is the sequence of rationals nums[i] / dens[i], NaN where
\* dens[i] = 0
ColumnIs(column, nums, dens) ==
    /\ Len(column) = Len(nums)
    /\ \A i \in DOMAIN column :
         IF dens[i] = 0 THEN column[i].nan
         ELSE ~column[i].nan /\ column[i].num * dens[i] = nums[i] * column[i].den

ExampleDone ==
    targets.pc = "done" /\ targets.close = ExampleClose /\ targets.length = 1

ExampleReturns ==
    /\ ColumnIs(targets.Return, <<0, 110, 9, 1>>, <<0, 100, 10, 1>>)
    /\ ColumnIs(targets.Target_1, <<110, 9, 1, 0>>, <<100, 10, 1, 0>>)

\* C10 as stated: Return = [NaN, 1.10, 0.9, 1.0], Target_1 = [1.10, 0.9,
\* 1.0, NaN] and Target_1_bin = [1, 0, 1, NaN]
C10_ExampleAsStated ==
    ExampleDone =>
        /\ ExampleReturns
        /\ ColumnIs(targets.Target_1_bin, <<1, 0, 1, 0>>, <<1, 1, 1, 0>>)

\* C10 amended: Return = [NaN, 1.10, 0.9, 1.0], Target_1 = [1.10, 0.9, 1.0,
\* NaN] and Target_1_bin = [1, 0, 0, NaN]: the third forward return is
\* exactly 1, which is not above 1
C10_Example ==
    ExampleDone =>
        /\ ExampleReturns
        /\ ColumnIs(targets.Target_1_bin, <<1, 0, 0, 0>>, <<1, 1, 1, 0>>)

C10_Witness == ExampleDone /\ Len(targets.Target_1_bin) = 4

TargetsDone == targets.pc = "done"

\* C11: for n positive prices and 1 <= length < n no row is removed, the
\* label of row i is 1 exactly when close[i + length] > close[i], 0 when
\* close[i + length] <= close[i], and NaN exactly on the last length rows
C11_LabelIsForwardDirection ==
    TargetsDone /\ targets.length < Len(targets.close)
    =>
    LET n == Len(targets.close)
        length == targets.length
    IN  /\ Len(targets.Return) = n
        /\ Len(targets.Target_1) = n
        /\ Len(targets.Target_1_bin) = n
        /\ \A i \in 1..n :
             targets.Target_1_bin[i] =
                IF i + length > n THEN NaNValue
                ELSE IF targets.close[i + length] > targets.close[i]
                     THEN Rat(1, 1)
                     ELSE Rat(0, 1)

\* a horizon of two bars on a frame with a rising, a flat or falling and a
\* tail row
C11_Witness ==
    /\ TargetsDone
    /\ targets.length = 2
    /\ Len(targets.close) = 4
    /\ targets.close[3] > targets.close[1]
    /\ targets.close[4] <= targets.close[2]
    /\ targets.Target_1_bin[1] = Rat(1, 1)
    /\ targets.Target_1_bin[2] = Rat(0, 1)
    /\ targets.Target_1_bin[4] = NaNValue

(***************************************************************************)
(* Claims on calculate_returns.                                            *)
(***************************************************************************)
ReturnsDone == returns.pc = "done"

ReturnsExampleDone ==
    /\ ReturnsDone
    /\ returns.gross_results = ExampleGross
    /\ returns.filter_trades = ExampleFilter
    /\ returns.fee = ExampleFee

\* C12 as stated: filter = [1, 1, 0, 1], gross = [0.02, -0.01, 0.5, 1] and
\* fee = 0.001 give the net results [0.019, -0.011, 0, 0.999]
C12_ExampleAsStated ==
    ReturnsExampleDone => returns.df_returns.Result = <<19, -11, 0, 999>>

\* C12 amended: filter = [1, 1, 0, 1], gross = [0.02, -0.01, 0.5, 1] and
\* fee = 0.001 give the net results [0.019, -0.011, 0, 0]: the last bar is a
\* sentinel bar (|gross| = 1) and is zeroed like the inactive bar
C12_Example ==
    ReturnsExampleDone => returns.df_returns.Result = <<19, -11, 0, 0>>

C12_Witness == ReturnsExampleDone /\ Len(returns.df_returns.Result) = 4

\* the net Results and their running sum anchored at 1, for the bars that
\* the predicate active selects
NetResultsAre(active(_)) ==
    \A i \in DOMAIN returns.gross_results :
        /\ returns.df_returns.Result[i] =
              IF active(i) /\ Abs(returns.gross_results[i]) # One
              THEN returns.gross_results[i] - returns.fee
              ELSE 0
        /\ returns.df_returns.Total_Return[i] =
              One + SumUpTo(returns.df_returns.Result, i)

FilterNonzero(i) == returns.filter_trades[i].num # 0

FilterIntegerPartNonzero(i) ==
    Abs(returns.filter_trades[i].num) >= returns.filter_trades[i].den

\* C13 as stated: on every bar the net Result is gross - fee when the filter
\* is nonzero and |gross| != 1, and 0 otherwise; Total_Return is 1 plus the
\* running sum of the net Results
C13_NetResultWhenFilterNonzero ==
    ReturnsDone
    => /\ Len(returns.df_returns.Result) = Len(returns.gross_results)
       /\ NetResultsAre(FilterNonzero)

\* C13 amended: on every bar the net Result is gross - fee when the filter,
\* truncated to an integer, is nonzero and |gross| != 1, and 0 otherwise;
\* Total_Return is 1 plus the running sum of the net Results
C13_NetResultWhenIntegerFilterNonzero ==
    ReturnsDone
    => /\ Len(returns.df_returns.Result) = Len(returns.gross_results)
       /\ NetResultsAre(FilterIntegerPartNonzero)

\* an active bar that pays the fee, a bar with a fractional filter and a
\* sentinel bar in one call
C13_Witness ==
    /\ ReturnsDone
    /\ returns.fee > 0
    /\ \E i, j, k \in DOMAIN returns.gross_results :
         /\ returns.filter_trades[i] = Quotient(1, 1)
         /\ returns.df_returns.Result[i] = returns.gross_results[i] - returns.fee
         /\ returns.filter_trades[j] = Quotient(1, 2)
         /\ returns.df_returns.Result[j] = 0
         /\ returns.filter_trades[k] = Quotient(1, 1)
         /\ Abs(returns.gross_results[k]) = One
         /\ returns.df_returns.Result[k] = 0

\* bar i sets a new high-water mark of the column: it is the first bar or
\* it is above every earlier bar
NewHigh(column, i) == i = 1 \/ column[i] > MaxUpTo(column, i - 1)

\* C14: every drawdown is >= 0, and it is 0 on each bar where the
\* cumulative return (1 plus the running sum of the net Results) sets a new
\* high-water mark
C14_DrawdownNonNegative ==
    ReturnsDone =>
        \A i \in DOMAIN returns.gross_results :
            /\ returns.df_returns.drawdown[i].num >= 0
            /\ NewHigh(returns.df_returns.Total_Return, i)
                  => returns.df_returns.drawdown[i].num = 0

\* the drawdown column is 1 - current / (running maximum) of the column from
\* the bar at which min_periods observations exist, and 0 before
DrawdownOf(column) ==
    \A i \in DOMAIN column :
        LET d == returns.df_returns.drawdown[i]
            m == MaxUpTo(column, i)
        IN  IF i < returns.drawdown_min_window THEN d.num = 0
            ELSE m # 0 => d.den # 0 /\ d.num * m = (m - column[i]) * d.den

\* C15: from the bar at which drawdown_min_window observations exist the
\* drawdown is 1 - cumulative return / running maximum of the cumulative
\* return, and it is 0 on the earlier bars
C15_DrawdownIsDeclineFromPeak ==
    ReturnsDone => DrawdownOf(returns.df_returns.Total_Return)

\* the number of consecutive bars ending at bar i whose drawdown is positive
PositiveRun(i) ==
    Cardinality({j \in 1..i :
        \A m \in j..i : returns.df_returns.drawdown[m].num > 0})

\* C16: drawdown_duration is the number of consecutive bars in drawdown
\* ending at the bar: 0 on a bar whose drawdown is 0, one more than on the
\* bar before on a bar in drawdown
C16_DurationCountsConsecutiveBars ==
    ReturnsDone =>
        \A i \in DOMAIN returns.gross_results :
            LET duration == returns.df_returns.drawdown_duration
            IN  /\ duration[i] = PositiveRun(i)
                /\ returns.df_returns.drawdown[i].num <= 0 => duration[i] = 0
                /\ returns.df_returns.drawdown[i].num > 0
                      => duration[i] = (IF i = 1 THEN 0 ELSE duration[i - 1]) + 1

\* two bars in drawdown in a row after a bar at the high-water mark
C16_Witness ==
    /\ ReturnsDone
    /\ \E i \in DOMAIN returns.gross_results :
         /\ i > 2
         /\ returns.df_returns.drawdown_duration[i - 2] = 0
         /\ returns.df_returns.drawdown_duration[i - 1] = 1
         /\ returns.df_returns.drawdown_duration[i] = 2

(***************************************************************************)
(* Claims on the scored series.                                            *)
(***************************************************************************)
\* C17: the scored series is the test block followed by rows of the
\* validation segment, in strictly increasing time order, without a row
\* twice and without a train row, and validation_date is the first
\* validation row, for an ordinal and for a label boundary
C17_ScoredSeriesIsForwardLooking ==
    /\ EvaluatorDone
    /\ evaluator.out.returned
    /\ evaluator.op \in {"model_pipeline", "calculate_results"}
    =>
    LET x_series == evaluator.out.x_series
    IN  /\ \A i, j \in DOMAIN x_series : i < j => x_series[i] < x_series[j]
        /\ SetOf(x_series) \cap SetOf(evaluator.out.X_train) = {}
        /\ SetOf(x_series) \subseteq
              SetOf(evaluator.out.X_test) \cup SetOf(evaluator.out.validation)
        /\ SetOf(evaluator.out.X_test) \subseteq SetOf(x_series)
        /\ evaluator.out.validation_date = <<evaluator.out.validation[1]>>

\* the same for the calls whose boundary is not a label
C17_OrdinalBoundary ==
    \/ (evaluator.pc = "done" /\ evaluator.validation_index.type = "str")
    \/ C17_ScoredSeriesIsForwardLooking

(***************************************************************************)
(* Claims on the combination search.                                       *)
(***************************************************************************)
SearchReturned ==
    /\ search.pc = "done"
    /\ search.op = "calculate_model_returns"
    /\ search.out.returned

\* the non-empty sets of binned variant columns
NonEmptySubsets == (SUBSET Range(TempVariables)) \ {{}}

\* C18: the search evaluates every non-empty subset of the three binned
\* columns exactly once and returns a mapping with exactly 7 entries, one per
\* subset, with or without extra features and a results column
C18_SevenEntries ==
    SearchReturned =>
        LET out == search.out
            first(k) == SubSeq(out.calls[k], 1,
                               Len(out.calls[k]) - Len(search.features))
        IN  /\ Len(out.results) = 7
            /\ \A i, j \in DOMAIN out.results :
                 i # j => out.results[i].key # out.results[j].key
            /\ \A s \in NonEmptySubsets :
                 /\ Cardinality({k \in DOMAIN out.calls :
                                    Range(first(k)) = s
                                    /\ Len(first(k)) = Cardinality(s)}) = 1
                 /\ Cardinality({i \in DOMAIN out.results :
                        Range(out.results[i].key[4]) = s}) = 1
            /\ \A k \in DOMAIN out.calls :
                 SubSeq(out.calls[k], Len(first(k)) + 1, Len(out.calls[k]))
                    = search.features

\* a search with an extra feature and a results column
C18_Witness ==
    /\ SearchReturned
    /\ search.features # <<>>
    /\ search.results_column = "drawdown"
    /\ Len(search.out.calls) = 7

\* C19: each key of the returned mapping is the name of the indicator, the
\* value, an underscore and the subset
C19_KeyNamesIndicator ==
    SearchReturned =>
        \A i \in DOMAIN search.out.results :
            /\ search.out.results[i].key[1] = search.indicator
            /\ search.out.results[i].key[2] = search.value
            /\ search.out.results[i].key[3] = "_"
            /\ Range(search.out.results[i].key[4]) \in NonEmptySubsets

\* C20: an indicator name that is not supported makes temp_indicator and
\* calculate_model_returns raise InvalidArgumentError with a message that
\* names the indicator; no column is added and nothing is returned
C20_UnsupportedIndicatorRaises ==
    search.pc = "done" /\ search.indicator \notin SupportedIndicators
    => /\ search.out.raised = "InvalidArgumentError"
       /\ \E i \in DOMAIN search.out.message :
             search.out.message[i] = search.indicator
       /\ search.out.columns = PriceColumns
       /\ ~search.out.returned
       /\ search.out.results = <<>>
       /\ search.out.calls = <<>>

C20_Witness ==
    /\ search.pc = "done"
    /\ search.op = "calculate_model_returns"
    /\ search.indicator = "MACD"
    /\ search.out.raised = "InvalidArgumentError"

(***************************************************************************)
(* Claims on the parallel run of the search.                               *)
(***************************************************************************)
AllReturned == \A k \in Cycles : parallel.pc[k] = "returned"

\* the results and the persisted model that the sequential run ends with
SequentialOutcome ==
    /\ \A k \in Cycles : parallel.results[k] = FittedModel(k)
    /\ parallel.file = FittedModel(Len(AllCombinations))

\* C21: once every cycle has returned, the results and the persisted state
\* are those of the sequential run, in any interleaving
C21_ParallelAsSequential == AllReturned => SequentialOutcome

\* the same for the sequential run alone
C21_SequentialRun ==
    AllReturned /\ parallel.mode = "sequential" => SequentialOutcome

(***************************************************************************)
(* Claims on Statistics.                                                   *)
(***************************************************************************)
ExpectedValueDone == stats.pc = "ready" /\ stats.calls >= 1

\* two rationals (or NaN) are the same number
SameNumber(a, b) ==
    IF a.nan \/ b.nan THEN a.nan /\ b.nan
    ELSE a.num * b.den = b.num * a.den

\* C22: on every row where a gain and a loss have occurred, Expected_Value
\* is Mean_Gain * Win_Rate - |Mean_Loss * Loss_Rate|, the means and rates
\* being those of the gains and of the losses so far: the loss term is
\* subtracted
C22_ExpectedValueSubtractsLoss ==
    ExpectedValueDone =>
        \A i \in DOMAIN stats.columns.Result :
            LET c == stats.columns
                gains ==
                    TotalUpTo(c.Result,
                              [j \in DOMAIN c.Result |-> c.Result[j].num > 0], i)
                losses ==
                    TotalUpTo(c.Result,
                              [j \in DOMAIN c.Result |-> c.Result[j].num < 0], i)
            IN  c.Gain_Count[i] > 0 /\ c.Loss_Count[i] > 0
                =>
                /\ SameNumber(c.Mean_Gain[i], Rat(gains, c.Gain_Count[i]))
                /\ SameNumber(c.Mean_Loss[i], Rat(losses, c.Loss_Count[i]))
                /\ SameNumber(c.Expected_Value[i],
                              Rat(gains - Abs(losses), c.Total_Trade[i]))

\* a row after a gain and a loss
C22_Witness ==
    /\ ExpectedValueDone
    /\ \E i \in DOMAIN stats.columns.Result :
         /\ stats.columns.Gain_Count[i] > 0
         /\ stats.columns.Loss_Count[i] > 0
         /\ ~stats.columns.Expected_Value[i].nan

\* the number of nonzero, non-NaN results given to Statistics, up to row i
TradesUpTo(i) ==
    Cardinality({j \in 1..i :
        ~stats.dataframe[j].nan /\ stats.dataframe[j].num # 0})

\* C29: after calculate_expected_value, Gain_Count and Loss_Count never
\* decrease along the series, Total_Trade = Gain_Count + Loss_Count = the
\* number of nonzero, non-NaN results so far, and Win_Rate + Loss_Rate = 1
\* wherever Total_Trade > 0
C29_CounterInvariant ==
    ExpectedValueDone =>
        LET c == stats.columns
        IN  /\ Len(c.Total_Trade) = Len(stats.dataframe)
            /\ \A i \in DOMAIN c.Result :
                 /\ i > 1 => /\ c.Gain_Count[i] >= c.Gain_Count[i - 1]
                             /\ c.Loss_Count[i] >= c.Loss_Count[i - 1]
                 /\ c.Total_Trade[i] = c.Gain_Count[i] + c.Loss_Count[i]
                 /\ c.Total_Trade[i] = TradesUpTo(i)
                 /\ c.Total_Trade[i] > 0
                      => /\ ~c.Win_Rate[i].nan /\ ~c.Loss_Rate[i].nan
                         /\ c.Win_Rate[i].num * c.Loss_Rate[i].den
                              + c.Loss_Rate[i].num * c.Win_Rate[i].den
                            = c.Win_Rate[i].den * c.Loss_Rate[i].den

\* a series with a zero, a NaN, a gain and a loss
C29_Witness ==
    /\ ExpectedValueDone
    /\ Len(stats.dataframe) = 3
    /\ \E i, j \in DOMAIN stats.dataframe :
         /\ stats.dataframe[i] \in {NaNValue, Rat(0, 1)}
         /\ IsGain(stats.dataframe[j])
    /\ stats.columns.Total_Trade[3] = 2
    /\ stats.columns.Loss_Count[3] = 1

\* C30: a second call of calculate_expected_value returns the Result,
\* Mean_Gain, Mean_Loss and Expected_Value columns of the first call, with
\* is_percent False or True
C30_Idempotent ==
    stats.pc = "ready" /\ stats.calls >= 2
    => /\ stats.columns.Result = stats.first.Result
       /\ stats.columns.Mean_Gain = stats.first.Mean_Gain
       /\ stats.columns.Mean_Loss = stats.first.Mean_Loss
       /\ stats.columns.Expected_Value = stats.first.Expected_Value

\* the same when the results are not percentages
C30_IdempotentWithoutPercent ==
    stats.pc = "ready" /\ ~stats.is_percent => C30_Idempotent

MetricsDone == reports.pc = "done" /\ reports.op = "result_metrics"

\* C23: Statistics raises when its DataFrame has no 'Result' column, and
\* result_metrics raises when the data is a DataFrame and result_column is
\* None; nothing is computed
C23_RaisesWithoutResultColumn ==
    /\ stats.pc \in {"ready", "failed"}
         /\ stats.kind = "DataFrame without Result"
       => /\ stats.pc = "failed"
          /\ stats.self.raised = "ValueError"
          /\ stats.columns = NoColumns
    /\ MetricsDone /\ reports.kind = "DataFrame"
         /\ reports.result_column = "None"
       => /\ reports.out.raised = "ValueError"
          /\ ~reports.out.returned
          /\ reports.out = MetricsRaised("ValueError")

C23_Witness ==
    /\ stats.pc = "failed"
    /\ stats.kind = "DataFrame without Result"
    /\ stats.self.raised = "ValueError"

\* C24: with zero trades neither operation raises; Win_Rate and Loss_Rate
\* are NaN and so is the expected value, in calculate_expected_value and in
\* result_metrics
C24_ZeroTradesGiveNaN ==
    /\ ExpectedValueDone
       => \A i \in DOMAIN stats.columns.Result :
             stats.columns.Total_Trade[i] = 0
             => /\ stats.columns.Win_Rate[i].nan
                /\ stats.columns.Loss_Rate[i].nan
                /\ stats.columns.Expected_Value[i].nan
    /\ /\ MetricsDone
       /\ reports.output_format \in {"dict", "Series", "DataFrame"}
       /\ ~NeedsResultColumn(reports.kind, reports.result_column)
       /\ reports.kind = "DataFrame" \/ reports.result_column = "None"
       /\ \A i \in DOMAIN reports.data_frame :
             LET x == IF reports.is_percentage_data
                      THEN PercentageData(reports.data_frame)[i]
                      ELSE reports.data_frame[i]
             IN  x.nan \/ x.num = 0
       => /\ reports.out.raised = "none"
          /\ reports.out.Win_Rate.nan
          /\ reports.out.Expected_Return.nan

\* the same for Statistics alone
C24_StatisticsZeroTrades ==
    ExpectedValueDone
    => \A i \in DOMAIN stats.columns.Result :
          stats.columns.Total_Trade[i] = 0
          => /\ stats.columns.Win_Rate[i].nan
             /\ stats.columns.Loss_Rate[i].nan
             /\ stats.columns.Expected_Value[i].nan

\* C28: the fee is deducted once per active non-sentinel bar in both result
\* series: on every bar Liquid_Result equals the net Result, and so
\* Liquid_Return equals Total_Return
C28_FeeDeductedOnce ==
    ReturnsDone
    => /\ returns.df_returns.Liquid_Result = returns.df_returns.Result
       /\ returns.df_returns.Liquid_Return = returns.df_returns.Total_Return

\* what the code computes: Liquid_Result is the net Result with the fee
\* deducted once more, unless the net Result is itself of magnitude 1
C28_LiquidResultPaysFeeAgain ==
    ReturnsDone
    => \A i \in DOMAIN returns.gross_results :
          returns.df_returns.Liquid_Result[i] =
             IF /\ returns.df_returns.Filter[i] # 0
                /\ Abs(returns.df_returns.Result[i]) # One
             THEN returns.df_returns.Result[i] - returns.fee
             ELSE 0

ReportsDone == reports.pc = "done" /\ reports.op = "model_reports"

\* Series arguments, a listed metric and as many predictions as rows given
WellFormedReportCall ==
    /\ reports.y_pred_all.kind = "Series"
    /\ reports.y_true_train.kind = "Series"
    /\ reports.y_true_test.kind = "Series"
    /\ reports.y_true_validation.kind # "DataFrame"
    /\ reports.metric \in metric_list
    /\ reports.y_pred_all.len =
          reports.y_true_train.len + reports.y_true_test.len
          + reports.y_true_validation.len

\* C27: with y_true_validation None and len(y_pred_all) = len(y_true_train)
\* + len(y_true_test), model_reports reports on the train and the test set
\* only and does not raise
C27_ValidationMayBeOmitted ==
    ReportsDone /\ WellFormedReportCall
       /\ reports.y_true_validation = None
    => /\ reports.out.raised = "none"
       /\ reports.out.printed = <<"Train", "Test">>

\* with a validation Series the three sets are reported
C27_ReportsThreeSets ==
    ReportsDone /\ WellFormedReportCall
       /\ reports.y_true_validation.kind = "Series"
    => /\ reports.out.raised = "none"
       /\ reports.out.printed = <<"Train", "Test", "Validation">>

\* the bins + 1 quantile cut points of the training window are not all
\* distinct
DuplicateCutPoints ==
    LET kept == DropNa(binning.call.train_series)
        sorted == SortAsc([t \in DOMAIN kept |-> kept[t][2]])
    IN  /\ kept # <<>>
        /\ \E j, k \in 0..binning.bins :
              /\ j < k
              /\ QuantileTimes(sorted, j, binning.bins)
                    = QuantileTimes(sorted, k, binning.bins)

WithinSentinels == \A x \in Range(binning.feature) : x \notin {Below, Above}

\* every non-NaN row of the feature has a bin of the table
EveryRowBinned ==
    /\ Len(binning.call.binned) = Len(DropNa(binning.feature))
    /\ \A b \in Range(binning.call.binned) :
          /\ Len(b.index) >= 1
          /\ b.index[1] \in 0..(Len(binning.call.intervals_range) - 1)

\* C26: when the training window yields duplicate quantile cut points,
\* feature_binning does not raise, its table has fewer than bins intervals
\* and every non-NaN value is mapped to a bin (stated for two or more bins
\* and for values between the sentinels)
C26_DuplicateCutPointsNeverRaise ==
    BinningDone /\ DuplicateCutPoints /\ WithinSentinels
       /\ binning.bins >= 2
    => /\ binning.call.raised = "none"
       /\ Len(binning.call.intervals_range) < binning.bins
       /\ EveryRowBinned

\* when at least two distinct cut points remain and more than one bin was
\* asked for, the call completes with fewer intervals
C26_CollapseWithTwoDistinctCutPoints ==
    BinningDone /\ DuplicateCutPoints /\ WithinSentinels
       /\ binning.bins >= 2 /\ Cardinality(TrainNums) >= 2
    => /\ binning.call.raised = "none"
       /\ Len(binning.call.intervals_range) < binning.bins
       /\ EveryRowBinned

\* a constant window cut in two or more bins keeps no interval
C26_ConstantWindowRaises ==
    BinningDone /\ binning.bins >= 2 /\ Cardinality(TrainNums) = 1
       /\ WithinSentinels
    => /\ binning.call.raised = "IndexError"
       /\ binning.call.intervals_range = <<>>

====
